---- MODULE Spec2Model ----
(***************************************************************************)
(* Model of dbt_dry_run/node_runner/model_runner.py: the four              *)
(* on_schema_change handlers, ModelRunner.run and                          *)
(* ModelRunner._insert_dependant_sql_literals, together with the parts of  *)
(* the package they call (DryRunResult.replace_table, replace_upstream_sql,*)
(* the results store, the SqlRunner and the loop that walks the DAG).      *)
(***************************************************************************)
EXTENDS Integers, Sequences, FiniteSets, TLC

VARIABLES
    hResult,    \* handler check: the DryRunResult handed to a handler
    hTarget,    \* handler check: the target (live) Table handed to a handler
    hPolicy,    \* handler check: the policy applied last, "" before any
    hOut,       \* handler check: Optional result returned by the handler
    results,    \* the results store: function from unique_id to DryRunResult
    last,       \* Optional record of the last call of run
    queried,    \* unique_ids of the nodes whose SQL was sent to SqlRunner.query
    manifest,   \* walk: function from unique_id to Node
    parents,    \* walk: function from unique_id to the set of direct upstreams
    pc          \* "idle" before run is called, then "returned"; the walk ends "done" or "aborted"

vars == <<hResult, hTarget, hPolicy, hOut, results, last, queried, manifest, parents, pc>>

handlerVars == <<hResult, hTarget, hPolicy, hOut>>

runVars == <<results, last, queried, manifest, parents, pc>>

(***************************************************************************)
(* Optional values: None is the empty tuple, Some(x) the one-tuple.        *)
(***************************************************************************)
None == <<>>

Some(x) == <<x>>

Get(o) == o[1]

Range(s) == {s[i] : i \in DOMAIN s}

(***************************************************************************)
(* Bounds of the model.                                                    *)
(***************************************************************************)
\* longest Table handed to a handler on its own
MaxFields == 2

\* longest Table the SqlRunner returns to run
MaxRunFields == 1

FieldNames == {"a", "b", "c"}

FieldTypes == {"INT64", "STRING"}

RunFieldNames == {"a", "b"}

RunFieldTypes == {"INT64"}

(***************************************************************************)
(* Table and its fields.  Field names are unique within a Table.           *)
(***************************************************************************)
TableField(n, t) == [name |-> n, type |-> t]

Table(fs) == [fields |-> fs]

FieldNamesOf(table) == {table.fields[i].name : i \in DOMAIN table.fields}

TablesOver(names, types, maxLen) ==
    UNION {
        {Table(fs) : fs \in {s \in [1..k -> {TableField(n, t) : n \in names, t \in types}] :
                                \A i, j \in 1..k : i # j => s[i].name # s[j].name}}
        : k \in 0..maxLen}

Tables == TablesOver(FieldNames, FieldTypes, MaxFields)

RunTables == TablesOver(RunFieldNames, RunFieldTypes, MaxRunFields)

(***************************************************************************)
(* Exceptions.  The message of an exception is kept as its parts: the node *)
(* it names, the upstream ids it lists, the added and removed field names. *)
(***************************************************************************)
Exc(kind, node, upstreams, added, removed) ==
    [kind |-> kind, node |-> node, upstreams |-> upstreams, added |-> added, removed |-> removed]

EngineError == Exc("EngineError", "", <<>>, {}, {})

SchemaChangeException(added, removed) == Exc("SchemaChangeException", "", <<>>, added, removed)

UpstreamFailedException(node, ids) == Exc("UpstreamFailedException", node, ids, {}, {})

KeyError(node) == Exc("KeyError", node, <<>>, {}, {})

(***************************************************************************)
(* DryRunResult and its replace_table.                                     *)
(***************************************************************************)
DryRunResult(node, table, status, exception) ==
    [node |-> node, table |-> table, status |-> status, exception |-> exception]

replace_table(dry_run_result, table) ==
    DryRunResult(dry_run_result.node, Some(table), dry_run_result.status, dry_run_result.exception)

(***************************************************************************)
(* Python dict keyed by field name, kept as the sequence of its values in  *)
(* insertion order: setting an existing key keeps its position.            *)
(***************************************************************************)
DictSet(d, field) ==
    IF \E i \in DOMAIN d : d[i].name = field.name
    THEN [i \in DOMAIN d |-> IF d[i].name = field.name THEN field ELSE d[i]]
    ELSE Append(d, field)

RECURSIVE DictUpdate(_, _)
DictUpdate(d, fields) ==
    IF fields = <<>> THEN d ELSE DictUpdate(DictSet(d, Head(fields)), Tail(fields))

DictOfFields(fields) == DictUpdate(<<>>, fields)

(***************************************************************************)
(* The handlers.                                                           *)
(***************************************************************************)
ignore_handler(dry_run_result, target_table) == replace_table(dry_run_result, target_table)

\* mutant: the predicted definition wins on a name both tables have
append_new_columns_predicted_wins(dry_run_result, target_table) ==
    IF dry_run_result.table = None
    THEN dry_run_result
    ELSE LET predicted == Get(dry_run_result.table).fields
             target_only == SelectSeq(target_table.fields,
                                      LAMBDA f : \A i \in DOMAIN predicted : predicted[i].name # f.name)
         IN  replace_table(dry_run_result, Table(predicted \o target_only))

append_new_columns_handler(dry_run_result, target_table) ==
    IF dry_run_result.table = None
    THEN dry_run_result
    ELSE LET mapped_predicted_table == DictOfFields(Get(dry_run_result.table).fields)
             mapped_target_table == DictOfFields(target_table.fields)
         IN  replace_table(dry_run_result,
                           Table(DictUpdate(mapped_predicted_table, mapped_target_table)))

sync_all_columns_handler(dry_run_result, target_table) == dry_run_result

\* mutant: removed fields alone do not count as a schema change
fail_handler_added_only(dry_run_result, target_table) ==
    IF dry_run_result.table = None
    THEN dry_run_result
    ELSE LET added_fields == FieldNamesOf(Get(dry_run_result.table)) \ FieldNamesOf(target_table)
             removed_fields == FieldNamesOf(target_table) \ FieldNamesOf(Get(dry_run_result.table))
         IN  IF added_fields # {}
             THEN DryRunResult(dry_run_result.node, None, "FAILURE",
                               Some(SchemaChangeException(added_fields, removed_fields)))
             ELSE DryRunResult(dry_run_result.node, Some(target_table),
                               dry_run_result.status, dry_run_result.exception)

fail_handler(dry_run_result, target_table) ==
    IF dry_run_result.table = None
    THEN dry_run_result
    ELSE LET predicted_table_field_names == FieldNamesOf(Get(dry_run_result.table))
             target_table_field_names == FieldNamesOf(target_table)
             added_fields == predicted_table_field_names \ target_table_field_names
             removed_fields == target_table_field_names \ predicted_table_field_names
             schema_changed == added_fields # {} \/ removed_fields # {}
         IN  IF schema_changed
             THEN DryRunResult(dry_run_result.node, None, "FAILURE",
                               Some(SchemaChangeException(added_fields, removed_fields)))
             ELSE DryRunResult(dry_run_result.node, Some(target_table),
                               dry_run_result.status, dry_run_result.exception)

OnSchemaChange == {"ignore", "append_new_columns", "sync_all_columns", "fail"}

ON_SCHEMA_CHANGE_TABLE_HANDLER(on_schema_change, dry_run_result, target_table) ==
    CASE on_schema_change = "ignore" -> ignore_handler(dry_run_result, target_table)
      [] on_schema_change = "append_new_columns" ->
             append_new_columns_handler(dry_run_result, target_table)
      [] on_schema_change = "sync_all_columns" ->
             sync_all_columns_handler(dry_run_result, target_table)
      [] on_schema_change = "fail" -> fail_handler(dry_run_result, target_table)

(***************************************************************************)
(* Node.  The database, db_schema and alias of a node name its table; the  *)
(* model names the table of a node by the node's unique_id.                *)
(***************************************************************************)
Node(unique_id, materialized, on_schema_change, deep_nodes, compiled_sql) ==
    [unique_id |-> unique_id,
     config |-> [materialized |-> materialized, on_schema_change |-> on_schema_change],
     depends_on |-> [deep_nodes |-> deep_nodes],
     compiled_sql |-> compiled_sql]

(***************************************************************************)
(* SQL text, kept as the sequence of its parts that matter here: a         *)
(* reference to the live table of a node, a literal derived table that     *)
(* stands for a node with the given column names, and the CREATE OR        *)
(* REPLACE VIEW header that names the node's own table.                    *)
(***************************************************************************)
Ref(id) == [kind |-> "ref", node |-> id, columns |-> <<>>]

Literal(id, columns) == [kind |-> "literal", node |-> id, columns |-> columns]

CreateView(id) == [kind |-> "create_or_replace_view", node |-> id, columns |-> <<>>]

replace_upstream_sql(sql, node, table) ==
    [i \in DOMAIN sql |->
        IF sql[i] = Ref(node.unique_id)
        THEN Literal(node.unique_id, [j \in DOMAIN table.fields |-> table.fields[j].name])
        ELSE sql[i]]

(***************************************************************************)
(* ModelRunner._insert_dependant_sql_literals.  The value is a record:     *)
(* raised is None or the exception raised, sql the text returned.          *)
(***************************************************************************)
\* mutant: an identifier missing from the store counts as a failed upstream
RECURSIVE get_results_missing_failed(_, _)
get_results_missing_failed(deep_nodes, store) ==
    IF deep_nodes = <<>> THEN <<>>
    ELSE <<IF Head(deep_nodes) \in DOMAIN store
           THEN store[Head(deep_nodes)]
           ELSE DryRunResult([unique_id |-> Head(deep_nodes)], None, "FAILURE", None)>>
         \o get_results_missing_failed(Tail(deep_nodes), store)

RECURSIVE get_results(_, _)
get_results(deep_nodes, store) ==
    IF deep_nodes = <<>> THEN <<>>
    ELSE IF Head(deep_nodes) \in DOMAIN store
         THEN <<store[Head(deep_nodes)]>> \o get_results(Tail(deep_nodes), store)
         ELSE get_results(Tail(deep_nodes), store)

IsFailed(r) == r.status # "SUCCESS"

\* mutant: one succeeded upstream is enough to go on
failed_upstreams_unless_one_succeeded(rs) ==
    IF \E i \in DOMAIN rs : ~IsFailed(rs[i]) THEN <<>> ELSE SelectSeq(rs, IsFailed)

\* mutant: only the last failed upstream is reported
failed_upstreams_last_only(rs) ==
    IF SelectSeq(rs, IsFailed) = <<>> THEN <<>>
    ELSE <<SelectSeq(rs, IsFailed)[Len(SelectSeq(rs, IsFailed))]>>

failed_upstreams(rs) == SelectSeq(rs, IsFailed)

HasTable(r) == r.table # None

\* mutant: only the first upstream with a table is substituted
completed_upstreams_first_only(rs) ==
    IF SelectSeq(rs, HasTable) = <<>> THEN <<>> ELSE <<Head(SelectSeq(rs, HasTable))>>

completed_upstreams(rs) == SelectSeq(rs, HasTable)

RECURSIVE replace_all(_, _)
replace_all(node_new_sql, upstreams) ==
    IF upstreams = <<>> THEN node_new_sql
    ELSE replace_all(replace_upstream_sql(node_new_sql, Head(upstreams).node,
                                          Get(Head(upstreams).table)),
                     Tail(upstreams))

insert_dependant_sql_literals(node, store) ==
    IF node.depends_on.deep_nodes = None
    THEN [raised |-> Some(KeyError(node.unique_id)), sql |-> <<>>]
    ELSE LET rs == get_results(Get(node.depends_on.deep_nodes), store)
             failed == failed_upstreams(rs)
         IN  IF failed # <<>>
             THEN [raised |-> Some(UpstreamFailedException(
                                       node.unique_id,
                                       [i \in DOMAIN failed |-> failed[i].node.unique_id])),
                   sql |-> <<>>]
             ELSE [raised |-> None,
                   sql |-> replace_all(node.compiled_sql, completed_upstreams(rs))]

(***************************************************************************)
(* ModelRunner.run.  query_return is what SqlRunner.query answers and      *)
(* schema_return what SqlRunner.get_node_schema answers, if they are       *)
(* called.  The value records the exception that escapes run (raised), the *)
(* DryRunResult returned (result) and the calls made on the SqlRunner in   *)
(* order (calls).                                                          *)
(***************************************************************************)
QueryCall(sql, query_return) ==
    [fn |-> "query", sql |-> sql, node |-> "", returned |-> Some(query_return)]

SchemaCall(node, schema_return) ==
    [fn |-> "get_node_schema", sql |-> <<>>, node |-> node.unique_id, returned |-> schema_return]

\* mutant: a node without on_schema_change gets the fail policy
DefaultOnSchemaChangeFail == "fail"

DefaultOnSchemaChange == "ignore"

PolicyOf(node) ==
    IF node.config.on_schema_change = None
    THEN DefaultOnSchemaChange
    ELSE Get(node.config.on_schema_change)

WrapSql(node, run_sql) ==
    IF node.config.materialized = "view"
    THEN <<CreateView(node.unique_id)>> \o run_sql
    ELSE run_sql

\* mutant: the live schema is fetched whatever the status of the query
AsksLiveSchemaAnyStatus(node, result) == node.config.materialized = "incremental"

AsksLiveSchema(node, result) ==
    result.status = "SUCCESS" /\ node.config.materialized = "incremental"

Reconcile(node, result, target_table) ==
    IF target_table # None
    THEN ON_SCHEMA_CHANGE_TABLE_HANDLER(PolicyOf(node), result, Get(target_table))
    ELSE result

\* mutant: run catches every exception
CaughtAny(e) == TRUE

\* mutant: run catches nothing
CaughtNone(e) == FALSE

Caught(e) == e.kind = "UpstreamFailedException"

run(node, store, query_return, schema_return) ==
    LET inserted == insert_dependant_sql_literals(node, store)
    IN  IF inserted.raised # None
        THEN IF Caught(Get(inserted.raised))
             THEN [raised |-> None,
                   result |-> Some(DryRunResult(node, None, "FAILURE", inserted.raised)),
                   calls |-> <<>>]
             ELSE [raised |-> inserted.raised, result |-> None, calls |-> <<>>]
        ELSE LET run_sql == WrapSql(node, inserted.sql)
                 result == DryRunResult(node, query_return.table, query_return.status,
                                        query_return.exception)
             IN  IF AsksLiveSchema(node, result)
                 THEN [raised |-> None,
                       result |-> Some(Reconcile(node, result, schema_return)),
                       calls |-> <<QueryCall(run_sql, query_return),
                                   SchemaCall(node, schema_return)>>]
                 ELSE [raised |-> None,
                       result |-> Some(result),
                       calls |-> <<QueryCall(run_sql, query_return)>>]

(***************************************************************************)
(* What the SqlRunner may answer.  query answers SUCCESS with a Table or   *)
(* with none and no error, or FAILURE with an error and no Table;          *)
(* get_node_schema answers the live Table or None.                         *)
(***************************************************************************)
QueryReturn(status, table, exception) ==
    [status |-> status, table |-> table, exception |-> exception]

QueryReturns ==
    {QueryReturn("SUCCESS", t, None) : t \in {None} \cup {Some(x) : x \in RunTables}}
    \cup {QueryReturn("FAILURE", None, Some(EngineError))}

SchemaReturns == {None} \cup {Some(x) : x \in RunTables}

Materializations == {"view", "table", "incremental"}

OptionalOnSchemaChange == {None} \cup {Some(p) : p \in OnSchemaChange}

(***************************************************************************)
(* Handlers on their own: a result and a target Table are drawn, and one   *)
(* handler is applied to them.                                             *)
(***************************************************************************)
HandlerNode == Node("N", "incremental", None, Some(<<>>), <<>>)

HandlerResults ==
    {DryRunResult(HandlerNode, t, st, e) :
        t \in {None} \cup {Some(x) : x \in Tables},
        st \in {"SUCCESS", "FAILURE"},
        e \in {None, Some(EngineError)}}

NoRun ==
    /\ results = <<>>
    /\ last = None
    /\ queried = {}
    /\ manifest = <<>>
    /\ parents = <<>>

HandlerInit ==
    /\ hResult \in HandlerResults
    /\ hTarget \in Tables
    /\ hPolicy = ""
    /\ hOut = None
    /\ NoRun
    /\ pc = "handlers"

Apply(policy, out) ==
    /\ hPolicy = ""
    /\ hPolicy' = policy
    /\ hOut' = Some(out)
    /\ UNCHANGED <<hResult, hTarget>>
    /\ UNCHANGED runVars

ApplyIgnore == Apply("ignore", ignore_handler(hResult, hTarget))

ApplyAppendNewColumns ==
    Apply("append_new_columns", append_new_columns_handler(hResult, hTarget))

ApplySyncAllColumns == Apply("sync_all_columns", sync_all_columns_handler(hResult, hTarget))

ApplyFail == Apply("fail", fail_handler(hResult, hTarget))

HandlerNext == ApplyIgnore \/ ApplyAppendNewColumns \/ ApplySyncAllColumns \/ ApplyFail

HandlerSpec == HandlerInit /\ [][HandlerNext]_vars

(***************************************************************************)
(* One call of run on a runner whose results store already holds results   *)
(* of upstream nodes.  The stored results are results run itself returns   *)
(* for a node without upstreams.                                           *)
(***************************************************************************)
UpstreamIds == {"A", "B"}

UpstreamNode(id) == Node(id, "table", None, Some(<<>>), <<>>)

StoredResults(id) ==
    {Get(run(UpstreamNode(id), <<>>, q, None).result) : q \in QueryReturns}

Stores ==
    UNION {{f \in [U -> UNION {StoredResults(id) : id \in U}] :
                \A id \in U : f[id] \in StoredResults(id)}
           : U \in SUBSET UpstreamIds}

SeqsOver(S, maxLen) == UNION {[1..k -> S] : k \in 0..maxLen}

DistinctSeqsOver(S) ==
    {s \in SeqsOver(S, Cardinality(S)) : \A i, j \in DOMAIN s : i # j => s[i] # s[j]}

DeepNodesChoices == {None} \cup {Some(s) : s \in DistinctSeqsOver(UpstreamIds)}

\* texts with at most as many references as there are upstream nodes, repeats included
CompiledSqls ==
    {[i \in DOMAIN s |-> Ref(s[i])] : s \in SeqsOver(UpstreamIds, Cardinality(UpstreamIds))}

RunNodes ==
    {Node("N", m, p, d, sql) :
        m \in Materializations, p \in OptionalOnSchemaChange,
        d \in DeepNodesChoices, sql \in CompiledSqls}

NoHandler ==
    /\ hResult = None
    /\ hTarget = None
    /\ hPolicy = ""
    /\ hOut = None

Init ==
    /\ NoHandler
    /\ results \in Stores
    /\ last = None
    /\ queried = {}
    /\ manifest = <<>>
    /\ parents = <<>>
    /\ pc = "idle"

Run(node, query_return, schema_return) ==
    /\ LET out == run(node, results, query_return, schema_return)
       IN  /\ last' = Some([node |-> node, out |-> out])
           /\ queried' = IF out.calls # <<>> THEN queried \cup {node.unique_id} ELSE queried
    /\ pc' = "returned"
    /\ UNCHANGED <<results, manifest, parents>>
    /\ UNCHANGED handlerVars

Next ==
    /\ pc = "idle"
    /\ \E node \in RunNodes, q \in QueryReturns, t \in SchemaReturns : Run(node, q, t)

Spec == Init /\ [][Next]_vars

(***************************************************************************)
(* The walk of a DAG: the nodes are run one at a time in WalkOrder, an     *)
(* order in which every node comes after its upstreams, and each result is *)
(* stored under the node's unique_id before the next node runs.  The       *)
(* deep_nodes of a node, when the manifest sets them, are all its          *)
(* transitive upstreams.                                                   *)
(***************************************************************************)
WalkOrder == <<"A", "B", "C">>

WalkIds == Range(WalkOrder)

Position(id) == CHOOSE i \in DOMAIN WalkOrder : WalkOrder[i] = id

Earlier(id) == {WalkOrder[i] : i \in 1..(Position(id) - 1)}

Graphs == {g \in [WalkIds -> SUBSET WalkIds] : \A id \in WalkIds : g[id] \subseteq Earlier(id)}

RECURSIVE Ancestors(_, _)
Ancestors(g, id) == g[id] \cup UNION {Ancestors(g, p) : p \in g[id]}

InWalkOrder(S) == SelectSeq(WalkOrder, LAMBDA id : id \in S)

WalkConfigs == {<<"view", None>>, <<"table", None>>, <<"incremental", Some("fail")>>}

WalkNode(g, id, config, deep_set) ==
    Node(id, config[1], config[2],
         IF deep_set THEN Some(InWalkOrder(Ancestors(g, id))) ELSE None,
         [i \in DOMAIN InWalkOrder(g[id]) |-> Ref(InWalkOrder(g[id])[i])])

WalkInit ==
    /\ NoHandler
    /\ results = <<>>
    /\ last = None
    /\ queried = {}
    /\ parents \in Graphs
    /\ \E config \in [WalkIds -> WalkConfigs], deep_set \in [WalkIds -> BOOLEAN] :
           manifest = [id \in WalkIds |-> WalkNode(parents, id, config[id], deep_set[id])]
    /\ pc = "idle"

NextId == WalkOrder[Cardinality(DOMAIN results) + 1]

RunAndStore(query_return, schema_return) ==
    /\ pc = "idle"
    /\ LET node == manifest[NextId]
           out == run(node, results, query_return, schema_return)
       IN  /\ out.raised = None
           /\ last' = Some([node |-> node, out |-> out])
           /\ queried' = IF out.calls # <<>> THEN queried \cup {node.unique_id} ELSE queried
           /\ results' = results @@ (node.unique_id :> Get(out.result))
    /\ pc' = IF DOMAIN results' = WalkIds THEN "done" ELSE "idle"
    /\ UNCHANGED <<manifest, parents>>
    /\ UNCHANGED handlerVars

RunAborts ==
    /\ pc = "idle"
    /\ LET node == manifest[NextId]
           out == run(node, results, QueryReturn("FAILURE", None, Some(EngineError)), None)
       IN  /\ out.raised # None
           /\ last' = Some([node |-> node, out |-> out])
    /\ pc' = "aborted"
    /\ UNCHANGED <<results, queried, manifest, parents>>
    /\ UNCHANGED handlerVars

WalkNext ==
    \/ \E q \in QueryReturns, t \in SchemaReturns : RunAndStore(q, t)
    \/ RunAborts

WalkSpec == WalkInit /\ [][WalkNext]_vars

(***************************************************************************)
(* Properties of the handlers, under HandlerSpec.                          *)
(***************************************************************************)
NamesSeq(fields) == [i \in DOMAIN fields |-> fields[i].name]

FieldNamed(fields, n) == fields[CHOOSE i \in DOMAIN fields : fields[i].name = n]

Added == {n \in FieldNames : n \in FieldNamesOf(Get(hResult.table)) /\ n \notin FieldNamesOf(hTarget)}

Removed == {n \in FieldNames : n \in FieldNamesOf(hTarget) /\ n \notin FieldNamesOf(Get(hResult.table))}

\* C4: the fail handler, given a result with a predicted table, returns the
\* input's node; when predicted and target field names differ it returns no
\* table, status FAILURE and a SchemaChangeException reporting exactly the
\* added (predicted minus target) and removed (target minus predicted) names;
\* when the name sets are equal, in any order, it returns the target table with
\* the input's status and exception.
C4_FailPolicy ==
    (hPolicy = "fail" /\ hResult.table # None) =>
        /\ Get(hOut).node = hResult.node
        /\ (Added # {} \/ Removed # {}) =>
               /\ Get(hOut).table = None
               /\ Get(hOut).status = "FAILURE"
               /\ Get(hOut).exception # None
               /\ Get(Get(hOut).exception).kind = "SchemaChangeException"
               /\ Get(Get(hOut).exception).added = Added
               /\ Get(Get(hOut).exception).removed = Removed
        /\ (Added = {} /\ Removed = {}) =>
               /\ Get(hOut).table = Some(hTarget)
               /\ Get(hOut).status = hResult.status
               /\ Get(hOut).exception = hResult.exception

\* predicted {a, b} against target {a, c}: FAILURE, no table, added {b}, removed {c}
C4_Witness ==
    /\ hPolicy = "fail"
    /\ hResult.table # None
    /\ hResult.status = "SUCCESS"
    /\ NamesSeq(Get(hResult.table).fields) = <<"a", "b">>
    /\ NamesSeq(hTarget.fields) = <<"a", "c">>
    /\ Get(hOut).status = "FAILURE"
    /\ Get(hOut).table = None
    /\ Get(Get(hOut).exception).added = {"b"}
    /\ Get(Get(hOut).exception).removed = {"c"}

\* C5: the append_new_columns handler returns the input unchanged when the
\* predicted table is absent; otherwise the returned table lists the predicted
\* names in predicted order followed by the target-only names in target order,
\* every name of the target carries the target's field, every predicted-only
\* name the predicted field, and node, status and exception are the input's.
C5_AppendNewColumns ==
    (hPolicy = "append_new_columns") =>
        IF hResult.table = None
        THEN Get(hOut) = hResult
        ELSE LET predicted == Get(hResult.table).fields
                 target == hTarget.fields
                 out == Get(Get(hOut).table).fields
                 target_only == SelectSeq(NamesSeq(target),
                                          LAMBDA n : n \notin FieldNamesOf(Get(hResult.table)))
             IN  /\ Get(hOut).table # None
                 /\ {out[i].name : i \in DOMAIN out}
                        = FieldNamesOf(Get(hResult.table)) \cup FieldNamesOf(hTarget)
                 /\ NamesSeq(out) = NamesSeq(predicted) \o target_only
                 /\ \A i \in DOMAIN out :
                        IF out[i].name \in FieldNamesOf(hTarget)
                        THEN out[i] = FieldNamed(target, out[i].name)
                        ELSE out[i] = FieldNamed(predicted, out[i].name)
                 /\ Get(hOut).node = hResult.node
                 /\ Get(hOut).status = hResult.status
                 /\ Get(hOut).exception = hResult.exception

\* predicted {a, b} against target {b, c}, b typed differently in the two:
\* the result is a, b, c with b as the target defines it
C5_Witness ==
    /\ hPolicy = "append_new_columns"
    /\ hResult.table # None
    /\ NamesSeq(Get(hResult.table).fields) = <<"a", "b">>
    /\ NamesSeq(hTarget.fields) = <<"b", "c">>
    /\ Get(hResult.table).fields[2] # hTarget.fields[1]
    /\ NamesSeq(Get(Get(hOut).table).fields) = <<"a", "b", "c">>
    /\ Get(Get(hOut).table).fields[2] = hTarget.fields[1]

(***************************************************************************)
(* Properties of one call of run, under Spec.  The store is the one run    *)
(* read: run leaves it to its caller to store the result.                  *)
(***************************************************************************)
Ran == last # None

RanNode == Get(last).node

Out == Get(last).out

DeepSet == RanNode.depends_on.deep_nodes # None

DeepIds == Range(Get(RanNode.depends_on.deep_nodes))

FailedIds == {id \in DeepIds \cap DOMAIN results : results[id].status # "SUCCESS"}

MissingIds == DeepIds \ DOMAIN results

QueryCalls == SelectSeq(Out.calls, LAMBDA c : c.fn = "query")

SchemaCalls == SelectSeq(Out.calls, LAMBDA c : c.fn = "get_node_schema")

\* C1: when deep_nodes is set and at least one of its identifiers present in
\* the store has a status other than SUCCESS, run returns a result for the
\* node with status FAILURE, no table and an UpstreamFailedException naming
\* the node and every such identifier, and makes no call on the SqlRunner.
C1_UpstreamFailed ==
    (Ran /\ DeepSet /\ FailedIds # {}) =>
        /\ Out.raised = None
        /\ Out.result # None
        /\ Get(Out.result).node = RanNode
        /\ Get(Out.result).status = "FAILURE"
        /\ Get(Out.result).table = None
        /\ Get(Out.result).exception # None
        /\ Get(Get(Out.result).exception).kind = "UpstreamFailedException"
        /\ Get(Get(Out.result).exception).node = RanNode.unique_id
        /\ FailedIds \subseteq Range(Get(Get(Out.result).exception).upstreams)
        /\ Out.calls = <<>>
        /\ queried = {}

\* one upstream failed, the other succeeded
C1_Witness ==
    /\ Ran
    /\ RanNode.depends_on.deep_nodes = Some(<<"A", "B">>)
    /\ DOMAIN results = {"A", "B"}
    /\ results["A"].status = "SUCCESS"
    /\ results["B"].status = "FAILURE"
    /\ Get(Out.result).status = "FAILURE"
    /\ Get(Get(Out.result).exception).upstreams = <<"B">>

\* C3: when deep_nodes is unset, a KeyError escapes run: no DryRunResult is
\* returned and no call is made on the SqlRunner.
C3_MissingDeepNodes ==
    (Ran /\ ~DeepSet) =>
        /\ Out.raised # None
        /\ Get(Out.raised).kind = "KeyError"
        /\ Get(Out.raised).node = RanNode.unique_id
        /\ Out.result = None
        /\ Out.calls = <<>>
        /\ queried = {}

\* deep_nodes unset on a node whose compiled_sql refers to a stored upstream
C3_Witness ==
    /\ Ran
    /\ ~DeepSet
    /\ RanNode.compiled_sql = <<Ref("A")>>
    /\ "A" \in DOMAIN results
    /\ Out.raised # None

\* C6: for an incremental node whose on_schema_change is unset or ignore, when
\* the query answered SUCCESS and a live table exists, the result carries the
\* live table, status SUCCESS and the exception the query answered, whatever
\* the predicted table.
C6_IgnoreByDefault ==
    (/\ Ran
     /\ RanNode.config.materialized = "incremental"
     /\ RanNode.config.on_schema_change \in {None, Some("ignore")}
     /\ Len(Out.calls) = 2
     /\ Get(Out.calls[1].returned).status = "SUCCESS"
     /\ Out.calls[2].returned # None) =>
        Out.result = Some(DryRunResult(RanNode, Out.calls[2].returned, "SUCCESS",
                                       Get(Out.calls[1].returned).exception))

\* on_schema_change unset, nothing predicted, a live table with a column
C6_Witness ==
    /\ Ran
    /\ RanNode.config.materialized = "incremental"
    /\ RanNode.config.on_schema_change = None
    /\ Len(Out.calls) = 2
    /\ Get(Out.calls[1].returned).status = "SUCCESS"
    /\ Get(Out.calls[1].returned).table = None
    /\ Out.calls[2].returned # None
    /\ Get(Out.calls[2].returned).fields # <<>>
    /\ Get(Out.result).table = Out.calls[2].returned

\* C9: when deep_nodes is set and no stored upstream failed, query is called
\* exactly once and first; get_node_schema is called, once and after the query,
\* exactly when the query answered SUCCESS and the node is incremental; unless
\* it is called and answers a live table, the result is the node with the
\* status, table and exception the query answered.
C9_Calls ==
    (Ran /\ DeepSet /\ FailedIds = {}) =>
        /\ Out.raised = None
        /\ Len(QueryCalls) = 1
        /\ Out.calls[1].fn = "query"
        /\ Len(SchemaCalls) <= 1
        /\ Len(Out.calls) = Len(QueryCalls) + Len(SchemaCalls)
        /\ (Len(SchemaCalls) = 1) <=>
               (/\ Get(Out.calls[1].returned).status = "SUCCESS"
                /\ RanNode.config.materialized = "incremental")
        /\ (Len(SchemaCalls) = 1) => SchemaCalls[1].node = RanNode.unique_id
        /\ (Len(SchemaCalls) = 0 \/ SchemaCalls[1].returned = None) =>
               Out.result = Some(DryRunResult(RanNode,
                                              Get(Out.calls[1].returned).table,
                                              Get(Out.calls[1].returned).status,
                                              Get(Out.calls[1].returned).exception))

\* an incremental node with the fail policy whose query fails: one call, the
\* answer of the query returned as it is
C9_Witness ==
    /\ Ran
    /\ DeepSet
    /\ FailedIds = {}
    /\ RanNode.config.materialized = "incremental"
    /\ RanNode.config.on_schema_change = Some("fail")
    /\ Len(Out.calls) = 1
    /\ Get(Out.calls[1].returned).status = "FAILURE"
    /\ Get(Out.result).exception = Some(EngineError)

\* the text sent to query, without the CREATE OR REPLACE VIEW header of a view
SentBody ==
    IF RanNode.config.materialized = "view"
    THEN Tail(Out.calls[1].sql)
    ELSE Out.calls[1].sql

AllUpstreamsSucceeded ==
    /\ Ran
    /\ DeepSet
    /\ \A id \in DeepIds : id \in DOMAIN results /\ results[id].status = "SUCCESS"

ColumnsOf(id) == NamesSeq(Get(results[id].table).fields)

\* C7 as claimed: when every upstream of the node succeeded, the text sent to
\* query refers to the live table of no upstream, and every reference to an
\* upstream in compiled_sql has become a literal table with the field names of
\* that upstream's predicted table.
C7_NoLiveReference ==
    AllUpstreamsSucceeded =>
        /\ Len(Out.calls) >= 1
        /\ \A i \in DOMAIN SentBody : \A id \in DeepIds : SentBody[i] # Ref(id)
        /\ \A i \in DOMAIN RanNode.compiled_sql : \A id \in DeepIds :
               RanNode.compiled_sql[i] = Ref(id) => SentBody[i] = Literal(id, ColumnsOf(id))

\* C7 as amended: when every upstream of the node succeeded, every reference
\* to an upstream whose stored result has a predicted table has become a
\* literal table with the field names of that table, and every other part of
\* compiled_sql, a reference to a succeeded upstream without a predicted table
\* included, is sent as it is; a view gets its header in front.
C7_KnownTablesSubstituted ==
    AllUpstreamsSucceeded =>
        /\ Len(Out.calls) >= 1
        /\ Out.calls[1].fn = "query"
        /\ RanNode.config.materialized = "view" =>
               Head(Out.calls[1].sql) = CreateView(RanNode.unique_id)
        /\ Len(SentBody) = Len(RanNode.compiled_sql)
        /\ \A i \in DOMAIN RanNode.compiled_sql :
               LET part == RanNode.compiled_sql[i]
               IN  IF part.kind = "ref" /\ part.node \in DeepIds /\ results[part.node].table # None
                   THEN SentBody[i] = Literal(part.node, ColumnsOf(part.node))
                   ELSE SentBody[i] = part

\* two upstreams with different predicted tables, both referred to: both
\* references are replaced by the literal of their own upstream
C7_Witness ==
    /\ AllUpstreamsSucceeded
    /\ DeepIds = {"A", "B"}
    /\ RanNode.compiled_sql = <<Ref("B"), Ref("A")>>
    /\ results["A"].table # None
    /\ results["B"].table # None
    /\ results["A"].table # results["B"].table
    /\ Get(results["A"].table).fields # <<>>
    /\ SentBody = <<Literal("B", ColumnsOf("B")), Literal("A", ColumnsOf("A"))>>

\* C8 as claimed: running a node while an identifier of its non-empty
\* deep_nodes is missing from the store is fatal: run returns no result.
C8_MissingUpstreamIsFatal ==
    (Ran /\ DeepSet /\ MissingIds # {}) => (Out.raised # None /\ Out.result = None)

\* C8 as amended: running a node while an identifier of its non-empty
\* deep_nodes is missing from the store is not fatal: the missing identifiers
\* are skipped.  No exception escapes run; the result is the upstream failure
\* naming the stored failed identifiers only, if there are any, and otherwise
\* the query is sent with the references to the missing identifiers left as
\* they are.
C8_MissingUpstreamIsSkipped ==
    (Ran /\ DeepSet /\ MissingIds # {}) =>
        /\ Out.raised = None
        /\ Out.result # None
        /\ IF FailedIds # {}
           THEN /\ Get(Out.result).exception # None
                /\ Range(Get(Get(Out.result).exception).upstreams) = FailedIds
           ELSE /\ Len(Out.calls) >= 1
                /\ \A i \in DOMAIN RanNode.compiled_sql :
                       RanNode.compiled_sql[i].node \in MissingIds =>
                           SentBody[i] = RanNode.compiled_sql[i]

\* deep_nodes names A and B, the store holds only a succeeded A: the query is
\* sent and answers SUCCESS
C8_Witness ==
    /\ Ran
    /\ RanNode.depends_on.deep_nodes = Some(<<"A", "B">>)
    /\ DOMAIN results = {"A"}
    /\ results["A"].status = "SUCCESS"
    /\ RanNode.compiled_sql = <<Ref("A"), Ref("B")>>
    /\ Len(Out.calls) = 1
    /\ SentBody[2] = Ref("B")
    /\ Get(Out.result).status = "SUCCESS"

(***************************************************************************)
(* Properties of the walk, under WalkSpec.                                 *)
(***************************************************************************)
GraphBuilt == \A id \in WalkIds : manifest[id].depends_on.deep_nodes # None

FailedAncestors(id) == {u \in Ancestors(parents, id) : results[u].status = "FAILURE"}

\* C2: when every node of the walked DAG has its deep_nodes, no exception ends
\* the walk: while nodes remain the next one can be run, at the end every node
\* has a result, and at any time every stored node with a FAILURE among its
\* transitive upstreams has status FAILURE and never had SQL sent to query.
C2_FailurePoisonsDownstream ==
    GraphBuilt =>
        /\ pc # "aborted"
        /\ pc = "idle" => ENABLED WalkNext
        /\ pc = "done" => DOMAIN results = WalkIds
        /\ \A id \in DOMAIN results :
               FailedAncestors(id) # {} =>
                   results[id].status = "FAILURE" /\ id \notin queried

\* the chain A, B, C walked to its end: A fails on a schema change, B and C
\* fail after it without a query
C2_Witness ==
    /\ GraphBuilt
    /\ pc = "done"
    /\ parents["B"] = {"A"}
    /\ parents["C"] = {"B"}
    /\ results["A"].exception # None
    /\ Get(results["A"].exception).kind = "SchemaChangeException"
    /\ results["B"].status = "FAILURE"
    /\ results["C"].status = "FAILURE"
    /\ queried = {"A"}

IsChain == GraphBuilt /\ parents["B"] = {"A"} /\ parents["C"] = {"B"}

NamedBy(id) == Range(Get(results[id].exception).upstreams)

\* C10 as claimed: in the chain A, B, C where A fails, the error of C names B
\* and does not name A.
C10_OnlyDirectUpstreamNamed ==
    (IsChain /\ pc = "done" /\ results["A"].status = "FAILURE") =>
        /\ results["C"].exception # None
        /\ "B" \in NamedBy("C")
        /\ "A" \notin NamedBy("C")

\* C10 as amended: the UpstreamFailedException of a node names every failed
\* identifier of its deep_nodes, that is all its failed transitive upstreams,
\* in the order of deep_nodes; in the chain A, B, C where A fails, the error of
\* B names A and the error of C names A and B.
C10_EveryFailedUpstreamNamed ==
    /\ \A id \in DOMAIN results :
           (GraphBuilt /\ FailedAncestors(id) # {}) =>
               /\ results[id].exception # None
               /\ Get(results[id].exception).kind = "UpstreamFailedException"
               /\ Get(results[id].exception).node = id
               /\ Get(results[id].exception).upstreams = InWalkOrder(FailedAncestors(id))
    /\ (IsChain /\ pc = "done" /\ results["A"].status = "FAILURE") =>
           /\ Get(results["B"].exception).upstreams = <<"A">>
           /\ Get(results["C"].exception).upstreams = <<"A", "B">>

\* the chain A, B, C walked to its end after A failed: C names A and B
C10_Witness ==
    /\ IsChain
    /\ pc = "done"
    /\ results["A"].status = "FAILURE"
    /\ results["C"].exception # None
    /\ NamedBy("C") = {"A", "B"}

====
